---- MODULE Spec2Model ----
(***************************************************************************)
(* The undo/redo action history of CircuitBuilder (gui/circuit_builder.py) *)
(* and the circuit it rebuilds.  Python strings that the code parses       *)
(* (history entries, gate names) are sequences of one-character strings,   *)
(* so that startswith and split are computed, not assumed.                 *)
(* The row navigation of GateInfoTab (gui/gate_info_tab.py) is modelled     *)
(* beside it, under a specification of its own.                            *)
(***************************************************************************)
EXTENDS Integers, Sequences, FiniteSets, TLC

\* ------------------------------------------------------------------ bounds
\* longest history the model lets the program build
MaxHist == 2
\* largest number of qubits the model lets the circuit hold
MaxQubits == 2
\* rotation angles the user may type are 0..MaxAngle
MaxAngle == 1

\* ------------------------------------------------------- program constants
\* entries of the gate list, in row order (rows are 0-based in Qt)
gates ==
    << <<"H">>, <<"X">>, <<"Y">>, <<"Z">>, <<"S">>, <<"T">>,
       <<"R","X">>, <<"R","Y">>, <<"R","Z">>,
       <<"C","X">>, <<"C","Y">>, <<"C","Z">>,
       <<"S","w","a","p">>, <<"C","C","X">>,
       <<"M","e","a","s","u","r","e">> >>

\* rows of the gate list the modelled user clicks: one single-qubit gate,
\* one rotation, one controlled gate, CCX and Measure
GateChoices == {0, 6, 9, 13, 14}

SingleQubitGates == { <<"H">>, <<"X">>, <<"Y">>, <<"Z">>, <<"S">>, <<"T">> }

RotationGates == { <<"R","X">>, <<"R","Y">>, <<"R","Z">> }

MultiQubitGates ==
    { <<"C","X">>, <<"C","Y">>, <<"C","Z">>, <<"S","w","a","p">>, <<"C","C","X">> }

CCXGate == <<"C","C","X">>

MeasureGate == <<"M","e","a","s","u","r","e">>

\* 'Add Qubit'
AddQubitStr == <<"A","d","d"," ","Q","u","b","i","t">>

\* 'Add Gate:'
AddGatePrefix == <<"A","d","d"," ","G","a","t","e",":">>

\* 'Run Simulation'
RunSimulationStr == <<"R","u","n"," ","S","i","m","u","l","a","t","i","o","n">>

\* the separator of action.split(": ")
Sep == <<":", " ">>

\* f"Add Gate: {gate}"
AddGateStr(gate) == AddGatePrefix \o <<" ">> \o gate

\* the value of a dialog the user cancelled, and of "no row selected"
None == -1

\* marks a step that did not call push_history
NoPush == <<>>

\* ------------------------------------------------------------ string helpers
\* str.startswith
startswith(s, p) == Len(s) >= Len(p) /\ SubSeq(s, 1, Len(p)) = p

\* str.find from position from (1-based); 0 when sep does not occur
find(s, sep, from) ==
    LET hits == { k \in from..(Len(s) - Len(sep) + 1) :
                    SubSeq(s, k, k + Len(sep) - 1) = sep }
    IN  IF hits = {} THEN 0 ELSE CHOOSE k \in hits : \A j \in hits : k <= j

\* action.split(": ")[1]; <<>> stands for the IndexError of a missing piece,
\* which no gate name equals
split_1(s) ==
    LET k1 == find(s, Sep, 1)
        start == k1 + Len(Sep)
        k2 == find(s, Sep, start)
    IN  IF k1 = 0 THEN <<>>
        ELSE IF k2 = 0 THEN SubSeq(s, start, Len(s))
        ELSE SubSeq(s, start, k2 - 1)

\* self.gate_list.findItems(gate, Qt.MatchExactly): the matching rows
findItems(gate) == { r \in 0..(Len(gates) - 1) : gates[r + 1] = gate }

\* index[0].row()
firstRow(rows) == CHOOSE r \in rows : \A q \in rows : r <= q

\* -------------------------------------------------------------- the circuit
\* init_circuit without the classical register
init_circuit_no_cbit == [nq |-> 1, ncl |-> 0, data |-> <<>>]

\* QuantumCircuit(QuantumRegister(1), ClassicalRegister(1))
init_circuit == [nq |-> 1, ncl |-> 1, data |-> <<>>]

\* add_qubit without the ClassicalRegister
add_register_no_cbit(c) == [c EXCEPT !.nq = c.nq + 1]

\* the two add_register calls of add_qubit
add_register(c) == [c EXCEPT !.nq = c.nq + 1, !.ncl = c.ncl + 1]

\* one appended instruction
instr(name, qubits, params) == [name |-> name, qubits |-> qubits, params |-> params]

\* the qubits 0..n-1 as a sequence
allQubits(n) == [k \in 1..n |-> k - 1]

\* one measure instruction per qubit, as measure_all appends them
measures(n) == [k \in 1..n |-> instr(<<"m","e","a","s","u","r","e">>, <<k - 1>>, <<>>)]

\* self.circuit.h(target) and its five siblings
apply_single_qubit_gate(c, gate, target) ==
    [c EXCEPT !.data = Append(c.data, instr(gate, <<target>>, <<>>))]

\* self.circuit.rx(angle, target) and its two siblings
apply_rotation_gate(c, gate, target, angle) ==
    [c EXCEPT !.data = Append(c.data, instr(gate, <<target>>, <<angle>>))]

\* save_statevector(); measure_all(): a new classical register of nq bits,
\* a barrier and one measurement per qubit
apply_measure(c) ==
    [c EXCEPT !.ncl = c.ncl + c.nq,
              !.data = c.data
                       \o << instr(<<"s","a","v","e">>, allQubits(c.nq), <<>>),
                             instr(<<"b","a","r","r","i","e","r">>, allQubits(c.nq), <<>>) >>
                       \o measures(c.nq)]

\* ----------------------------------------------------------------- history
\* the mutable fields of the widget, gathered in one record
VARIABLES circuit, history, redo_stack, row, msg, pushed

\* position in the running handler; lap is the parity of the loop iterations
\* that rebuild_circuit has made beyond the model's bounds
VARIABLES pc, i, caller, last_action, lap

\* the latest button handler (op), the log and circuit it started from (pre),
\* the history before an undo that only a redo has followed, and the action
\* reported by the latest undo or redo
VARIABLES op, pre, before_undo, reported

\* the circuit from which the entry popped by the latest undo was added, when
\* the handler that recorded the entry ran right before the undo
VARIABLE undone_from

\* whether the latest step of a handler emitted the circuit_updated signal, to
\* which MainWindow.update_math_display, a reader of the circuit, is connected
VARIABLE emitted

\* the Gate Information tab: the current row of its gate list (row), and the
\* button clicked last (op) with the row it found (pre)
VARIABLE gate_info

vars == <<circuit, history, redo_stack, row, msg, pushed,
          pc, i, caller, last_action, lap, op, pre, before_undo, reported,
          undone_from, emitted, gate_info>>

\* no circuit: a QuantumCircuit of the widget has a register or more
NoCircuit == [nq |-> 0, ncl |-> 0, data |-> <<>>]

\* the widget's fields as one record, as the methods below take and return it
Self ==
    [circuit |-> circuit, history |-> history, redo_stack |-> redo_stack,
     row |-> row, msg |-> msg, pushed |-> pushed, emitted |-> emitted]

\* a QMessageBox: its title, its text and the value formatted into the text
Msg(title, text, arg) == <<title, text, arg>>

\* str(n) of a non-negative integer
RECURSIVE str(_)
str(n) ==
    LET digit == <<"0", "1", "2", "3", "4", "5", "6", "7", "8", "9">>[(n % 10) + 1]
    IN  IF n < 10 THEN <<digit>> ELSE Append(str(n \div 10), digit)

\* the result of get_qubits when the dialog is cancelled
NoQubits == <<>>

\* update_math_display() finds a statevector in the simulation's result: it
\* takes a save_statevector instruction in the circuit
saves_statevector(c) ==
    \E k \in 1..Len(c.data) : c.data[k].name = <<"s","a","v","e">>

\* update_visualization(): it ends with update_math_display(), which emits
\* circuit_updated when it has found the statevector
update_visualization(s) ==
    [s EXCEPT !.emitted = @ \/ saves_statevector(s.circuit)]

\* push_history that also adds a qubit to the circuit
push_history_adds_qubit(s, action) ==
    [s EXCEPT !.history = Append(s.history, action),
              !.redo_stack = <<>>,
              !.pushed = action,
              !.circuit.nq = @ + 1]

\* push_history without the redo_stack.clear()
push_history_keeps_redo(s, action) ==
    [s EXCEPT !.history = Append(s.history, action),
              !.pushed = action]

\* push_history(action): self.history.append(action); self.redo_stack.clear()
push_history(s, action) ==
    [s EXCEPT !.history = Append(s.history, action),
              !.redo_stack = <<>>,
              !.pushed = action]

\* add_qubit()
add_qubit(s) ==
    LET num_qubits == s.circuit.nq
        s1 == update_visualization([s EXCEPT !.circuit = add_register(s.circuit)])
        s2 == push_history(s1, AddQubitStr)
    IN  [s2 EXCEPT !.msg = Msg("Qubit Added", "Qubit {num_qubits} added to the circuit.", str(num_qubits))]

\* get_qubits that returns the first qubit when the dialog is cancelled
get_qubits_first_on_cancel(answer) == IF answer # None THEN <<answer>> ELSE <<0>>

\* get_qubits(prompt): answer is the item picked (0..num_qubits-1) or None
get_qubits(answer) == IF answer # None THEN <<answer>> ELSE NoQubits

\* apply_multi_qubit_gate(gate, controls, targets); qiskit raises CircuitError
\* on duplicate qubit arguments, and the QMessageBox.warning of the CCX branch
\* is followed by a plain return
apply_multi_qubit_gate(c, gate, controls, targets) ==
    LET control == controls[1]
        target == targets[1]
    IN  IF gate = CCXGate
        THEN IF Len(controls) < 2
             THEN [circuit |-> c, raised |-> FALSE, warned |-> TRUE]
             ELSE IF Cardinality({control, controls[2], target}) < 3
                  THEN [circuit |-> c, raised |-> TRUE, warned |-> FALSE]
                  ELSE [circuit |-> [c EXCEPT !.data =
                                       Append(c.data, instr(gate, <<control, controls[2], target>>, <<>>))],
                        raised |-> FALSE, warned |-> FALSE]
        ELSE IF control = target
             THEN [circuit |-> c, raised |-> TRUE, warned |-> FALSE]
             ELSE [circuit |-> [c EXCEPT !.data =
                                  Append(c.data, instr(gate, <<control, target>>, <<>>))],
                   raised |-> FALSE, warned |-> FALSE]

\* the tail of add_gate: update_visualization, push_history, "Gate Added"
gate_added(s, gate) ==
    [push_history(update_visualization(s), AddGateStr(gate))
        EXCEPT !.msg = Msg("Gate Added", "{gate} gate added to the circuit.", gate)]

\* add_gate() from `gate = selected_items[0].text()` on.  The "Unknown Gate"
\* warning of the last else is followed by the tail of add_gate, whose
\* "Gate Added" box is the one that stays
add_gate_named(s, gate, tgt, ang, ctl) ==
    LET num_qubits == s.circuit.nq
        target_qubits == get_qubits(tgt)
        control_qubits == get_qubits(ctl)
        m == apply_multi_qubit_gate(s.circuit, gate, control_qubits, target_qubits)
    IN  IF num_qubits = 0
        THEN [s EXCEPT !.msg = Msg("No Qubits", "Please add qubits before adding gates.", <<>>)]
        ELSE IF target_qubits = NoQubits
        THEN s
        ELSE IF gate \in SingleQubitGates
        THEN gate_added([s EXCEPT !.circuit =
                           apply_single_qubit_gate(s.circuit, gate, target_qubits[1])], gate)
        ELSE IF gate \in RotationGates
        THEN IF ang # None
             THEN gate_added([s EXCEPT !.circuit =
                                apply_rotation_gate(s.circuit, gate, target_qubits[1], ang)], gate)
             ELSE gate_added(s, gate)
        ELSE IF gate \in MultiQubitGates
        THEN IF control_qubits = NoQubits
             THEN s
             ELSE IF m.raised
             THEN [s EXCEPT !.msg = Msg("Error", "Failed to add gate:", <<>>)]
             ELSE gate_added([s EXCEPT !.circuit = m.circuit], gate)
        ELSE IF gate = MeasureGate
        THEN gate_added([s EXCEPT !.circuit = apply_measure(s.circuit)], gate)
        ELSE gate_added(s, gate)

\* add_gate whose except branch lacks the return: a gate that raised is
\* recorded like one that was applied
add_gate_records_failed(s, tgt, ang, ctl) ==
    IF s.row = None
    THEN [s EXCEPT !.msg = Msg("No Gate Selected", "Please select a gate to add.", <<>>)]
    ELSE LET gate == gates[s.row + 1]
             num_qubits == s.circuit.nq
             target_qubits == get_qubits(tgt)
             control_qubits == get_qubits(ctl)
             m == apply_multi_qubit_gate(s.circuit, gate, control_qubits, target_qubits)
         IN  IF num_qubits = 0
             THEN [s EXCEPT !.msg = Msg("No Qubits", "Please add qubits before adding gates.", <<>>)]
             ELSE IF target_qubits = NoQubits
             THEN s
             ELSE IF gate \in SingleQubitGates
             THEN gate_added([s EXCEPT !.circuit =
                                apply_single_qubit_gate(s.circuit, gate, target_qubits[1])], gate)
             ELSE IF gate \in RotationGates
             THEN IF ang # None
                  THEN gate_added([s EXCEPT !.circuit =
                                     apply_rotation_gate(s.circuit, gate, target_qubits[1], ang)], gate)
                  ELSE gate_added(s, gate)
             ELSE IF gate \in MultiQubitGates
             THEN IF control_qubits = NoQubits
                  THEN s
                  ELSE IF m.raised
                  THEN [push_history(s, AddGateStr(gate))
                           EXCEPT !.msg = Msg("Error", "Failed to add gate:", <<>>)]
                  ELSE gate_added([s EXCEPT !.circuit = m.circuit], gate)
             ELSE IF gate = MeasureGate
             THEN gate_added([s EXCEPT !.circuit = apply_measure(s.circuit)], gate)
             ELSE gate_added(s, gate)

\* add_gate(); tgt, ang and ctl are the user's answers to the target-qubit,
\* angle and control-qubit dialogs (None when cancelled)
add_gate(s, tgt, ang, ctl) ==
    IF s.row = None
    THEN [s EXCEPT !.msg = Msg("No Gate Selected", "Please select a gate to add.", <<>>)]
    ELSE add_gate_named(s, gates[s.row + 1], tgt, ang, ctl)

\* a loop body that records again every entry it has no branch for
rebuild_body_records_others(s, action, tgt, ang, ctl) ==
    IF startswith(action, AddQubitStr)
    THEN add_qubit(s)
    ELSE IF startswith(action, AddGatePrefix)
    THEN LET gate == split_1(action)
             index == findItems(gate)
         IN  IF index # {}
             THEN add_gate([s EXCEPT !.row = firstRow(index)], tgt, ang, ctl)
             ELSE s
    ELSE push_history(s, action)

\* the body of the for loop of rebuild_circuit, for one action of history
rebuild_body(s, action, tgt, ang, ctl) ==
    IF startswith(action, AddQubitStr)
    THEN add_qubit(s)
    ELSE IF startswith(action, AddGatePrefix)
    THEN LET gate == split_1(action)
             index == findItems(gate)
         IN  IF index # {}
             THEN add_gate([s EXCEPT !.row = firstRow(index)], tgt, ang, ctl)
             ELSE s
    ELSE s

\* ------------------------------------------------------------------ actions
\* a qubit dialog that offers one item too many
QubitAnswers_one_more(n) == (0..n) \cup {None}

\* the items of a qubit dialog on a circuit of n qubits, and Cancel
QubitAnswers(n) == (0..(n - 1)) \cup {None}

\* the values of the angle dialog, and Cancel
AngleAnswers == (0..MaxAngle) \cup {None}

\* the angle dialog is shown for rotation gates only
AnglesAsked(r) ==
    IF r # None /\ gates[r + 1] \in RotationGates THEN AngleAnswers ELSE {None}

\* the control-qubit dialog is shown for multi-qubit gates only
ControlsAsked(r, n) ==
    IF r # None /\ gates[r + 1] \in MultiQubitGates THEN QubitAnswers(n) ELSE {None}

\* the row rebuild_circuit selects for an action, None when it selects none
rebuild_row(action) ==
    IF startswith(action, AddGatePrefix) /\ findItems(split_1(action)) # {}
    THEN firstRow(findItems(split_1(action)))
    ELSE None

\* the state a handler starts from
Fresh == [Self EXCEPT !.pushed = NoPush, !.emitted = FALSE]

\* assigns the widget's fields
Set(s) ==
    /\ circuit' = s.circuit
    /\ history' = s.history
    /\ redo_stack' = s.redo_stack
    /\ row' = s.row
    /\ msg' = s.msg
    /\ pushed' = s.pushed
    /\ emitted' = s.emitted

\* the model's bounds
Fits(s) == Len(s.history) <= MaxHist /\ s.circuit.nq <= MaxQubits

\* the last n elements of a sequence
lastN(q, n) == IF Len(q) > n THEN SubSeq(q, Len(q) - n + 1, Len(q)) ELSE q

\* what is kept of a state that exceeds the bounds: the newest entries of
\* history and the saturated qubit count, on which alone the continuation of
\* the loop of rebuild_circuit depends
clip(s) ==
    [circuit |-> [init_circuit EXCEPT
                     !.nq = IF s.circuit.nq > MaxQubits THEN MaxQubits ELSE s.circuit.nq],
     history |-> lastN(s.history, MaxHist),
     redo_stack |-> <<>>,
     row |-> None,
     msg |-> Msg("", "", <<>>),
     pushed |-> NoPush,
     emitted |-> FALSE]

\* records what a button handler started from; before_undo is the history an
\* undo_action popped from, kept while only a redo_action has followed it;
\* reported is the action named in the "Undid action"/"Redid action" box
Begin(name) ==
    /\ op' = name
    /\ reported' = IF name = "redo" /\ redo_stack # <<>>
                   THEN redo_stack[Len(redo_stack)]
                   ELSE <<>>
    /\ pre' = [history |-> history, redo_stack |-> redo_stack, circuit |-> circuit]
    /\ before_undo' = IF name = "undo" THEN history
                      ELSE IF name = "redo" /\ op = "undo" THEN before_undo
                      ELSE <<>>
    /\ undone_from' = IF name = "undo" /\ history # <<>> /\ pushed # NoPush
                      THEN pre.circuit
                      ELSE NoCircuit

Init ==
    /\ circuit = init_circuit
    /\ history = <<>>
    /\ redo_stack = <<>>
    /\ row = None
    /\ msg = Msg("", "", <<>>)
    /\ pushed = NoPush
    /\ emitted = FALSE
    /\ gate_info = [row |-> None, pre |-> None, op |-> "init"]
    /\ pc = "idle"
    /\ i = 0
    /\ caller = "none"
    /\ last_action = <<>>
    /\ lap = 0
    /\ op = "init"
    /\ pre = [history |-> <<>>, redo_stack |-> <<>>, circuit |-> init_circuit]
    /\ before_undo = <<>>
    /\ reported = <<>>
    /\ undone_from = NoCircuit

\* the user clicks one of the given rows of the gate list
SelectRow(rows) ==
    /\ pc = "idle"
    /\ \E r \in rows : row' = r
    /\ UNCHANGED <<circuit, history, redo_stack, msg, pushed, emitted, pc, i, caller,
                   last_action, lap, op, pre, before_undo, reported, undone_from>>
    /\ UNCHANGED gate_info

\* the user clicks a row of the gate list
SelectGate == SelectRow(GateChoices)

\* the user clicks the first row of the gate list
SelectFirstGate == SelectRow({0})

\* the Add Qubit button
AddQubit ==
    /\ pc = "idle"
    /\ LET s == add_qubit(Fresh) IN Fits(s) /\ Set(s)
    /\ Begin("add_qubit")
    /\ UNCHANGED <<pc, i, caller, last_action, lap>>
    /\ UNCHANGED gate_info

\* the Add Gate button
AddGate ==
    /\ pc = "idle"
    /\ \E tgt \in QubitAnswers(circuit.nq), ang \in AnglesAsked(row),
          ctl \in ControlsAsked(row, circuit.nq) :
          LET s == add_gate(Fresh, tgt, ang, ctl) IN Fits(s) /\ Set(s)
    /\ Begin("add_gate")
    /\ UNCHANGED <<pc, i, caller, last_action, lap>>
    /\ UNCHANGED gate_info

\* the Run Simulation button; whether the simulators succeed is the library's
RunSimulation ==
    /\ pc = "idle"
    /\ \E ok \in BOOLEAN :
          LET s == IF ok
                   THEN [push_history(Fresh, RunSimulationStr)
                            EXCEPT !.msg = Msg("Simulation Completed", "The simulation has been successfully run.", <<>>)]
                   ELSE [Fresh EXCEPT !.msg = Msg("Simulation Error", "Failed to run simulation:", <<>>)]
          IN  Fits(s) /\ Set(s)
    /\ Begin("run_simulation")
    /\ UNCHANGED <<pc, i, caller, last_action, lap>>
    /\ UNCHANGED gate_info

\* undo_action whose empty-history branch also clears the redo stack
UndoAction_clears_redo ==
    /\ pc = "idle"
    /\ Begin("undo")
    /\ pushed' = NoPush
    /\ emitted' = FALSE
    /\ IF history = <<>>
       THEN /\ msg' = Msg("Undo", "No actions to undo.", <<>>)
            /\ redo_stack' = <<>>
            /\ UNCHANGED <<circuit, history, row, pc, i, caller, last_action, lap>>
       ELSE /\ last_action' = history[Len(history)]
            /\ history' = SubSeq(history, 1, Len(history) - 1)
            /\ redo_stack' = Append(redo_stack, history[Len(history)])
            /\ circuit' = init_circuit
            /\ pc' = "rebuild"
            /\ i' = 0
            /\ caller' = "undo"
            /\ UNCHANGED <<row, msg, lap>>
    /\ UNCHANGED gate_info

\* undo_action() up to and including the init_circuit() of rebuild_circuit
UndoAction ==
    /\ pc = "idle"
    /\ Begin("undo")
    /\ pushed' = NoPush
    /\ emitted' = FALSE
    /\ IF history = <<>>
       THEN /\ msg' = Msg("Undo", "No actions to undo.", <<>>)
            /\ UNCHANGED <<circuit, history, redo_stack, row, pc, i, caller, last_action, lap>>
       ELSE /\ last_action' = history[Len(history)]
            /\ history' = SubSeq(history, 1, Len(history) - 1)
            /\ redo_stack' = Append(redo_stack, history[Len(history)])
            /\ circuit' = init_circuit
            /\ pc' = "rebuild"
            /\ i' = 0
            /\ caller' = "undo"
            /\ UNCHANGED <<row, msg, lap>>
    /\ UNCHANGED gate_info

\* redo_action whose empty-stack branch lacks the return before the rebuild
RedoAction_rebuilds_on_empty ==
    /\ pc = "idle"
    /\ Begin("redo")
    /\ pushed' = NoPush
    /\ emitted' = FALSE
    /\ IF redo_stack = <<>>
       THEN /\ msg' = Msg("Redo", "No actions to redo.", <<>>)
            /\ circuit' = init_circuit
            /\ UNCHANGED <<history, redo_stack, row, pc, i, caller, last_action, lap>>
       ELSE /\ redo_stack' = SubSeq(redo_stack, 1, Len(redo_stack) - 1)
            /\ history' = Append(history, redo_stack[Len(redo_stack)])
            /\ msg' = Msg("Redo", "Redid action: {action}", redo_stack[Len(redo_stack)])
            /\ circuit' = init_circuit
            /\ pc' = "rebuild"
            /\ i' = 0
            /\ caller' = "redo"
            /\ UNCHANGED <<row, last_action, lap>>
    /\ UNCHANGED gate_info

\* redo_action() up to and including the init_circuit() of rebuild_circuit
RedoAction ==
    /\ pc = "idle"
    /\ Begin("redo")
    /\ pushed' = NoPush
    /\ emitted' = FALSE
    /\ IF redo_stack = <<>>
       THEN /\ msg' = Msg("Redo", "No actions to redo.", <<>>)
            /\ UNCHANGED <<circuit, history, redo_stack, row, pc, i, caller, last_action, lap>>
       ELSE /\ redo_stack' = SubSeq(redo_stack, 1, Len(redo_stack) - 1)
            /\ history' = Append(history, redo_stack[Len(redo_stack)])
            /\ msg' = Msg("Redo", "Redid action: {action}", redo_stack[Len(redo_stack)])
            /\ circuit' = init_circuit
            /\ pc' = "rebuild"
            /\ i' = 0
            /\ caller' = "redo"
            /\ UNCHANGED <<row, last_action, lap>>
    /\ UNCHANGED gate_info

\* rebuild_circuit is running its loop
InReplay == pc \in {"rebuild", "rebuild_clipped"}

\* one iteration of the for loop of rebuild_circuit: the list iterator yields
\* history[i] as long as i is below the list's current length.  An iteration
\* whose result exceeds the bounds is followed on the clipped state: the
\* iterator's index moves with the window of history that is kept
RebuildStep ==
    /\ InReplay
    /\ i < Len(history)
    /\ \E tgt \in QubitAnswers(circuit.nq),
          ang \in AnglesAsked(rebuild_row(history[i + 1])),
          ctl \in ControlsAsked(rebuild_row(history[i + 1]), circuit.nq) :
          LET s == rebuild_body(Fresh, history[i + 1], tgt, ang, ctl)
          IN  IF pc = "rebuild" /\ Fits(s)
              THEN /\ Set(s)
                   /\ i' = i + 1
                   /\ UNCHANGED <<pc, caller, last_action, lap, op, pre,
                                  before_undo, reported, undone_from>>
              ELSE /\ Set(clip(s))
                   /\ i' = i + 1 - (Len(s.history) - Len(clip(s).history))
                   /\ pc' = "rebuild_clipped"
                   /\ lap' = 1 - lap
                   /\ caller' = "none"
                   /\ last_action' = <<>>
                   /\ op' = "clipped"
                   /\ pre' = [history |-> <<>>, redo_stack |-> <<>>, circuit |-> init_circuit]
                   /\ before_undo' = <<>>
                   /\ reported' = <<>>
                   /\ undone_from' = NoCircuit
    /\ UNCHANGED gate_info

\* the loop of rebuild_circuit is exhausted: update_visualization(), and
\* undo_action reports the action it popped.  A replay that left the bounds
\* ends in "clipped", where the model follows the program no further
RebuildDone ==
    /\ InReplay
    /\ i >= Len(history)
    /\ pc' = IF pc = "rebuild" THEN "idle" ELSE "clipped"
    /\ msg' = IF caller = "undo"
              THEN Msg("Undo", "Undid action: {last_action}", last_action)
              ELSE msg
    /\ pushed' = NoPush
    /\ emitted' = (pc = "rebuild" /\ saves_statevector(circuit))
    /\ i' = 0
    /\ caller' = "none"
    /\ last_action' = <<>>
    /\ lap' = 0
    /\ reported' = IF caller = "undo" THEN last_action ELSE reported
    /\ UNCHANGED <<circuit, history, redo_stack, row, op, pre, before_undo,
                   undone_from>>
    /\ UNCHANGED gate_info

\* MainWindow.new_circuit(): on Yes, clear_circuit()
NewCircuit ==
    /\ pc = "idle"
    /\ \E yes \in BOOLEAN :
          IF yes
          THEN /\ circuit' = init_circuit
               /\ msg' = Msg("Circuit Cleared", "The circuit has been cleared.", <<>>)
               /\ op' = "clear_circuit"
          ELSE /\ UNCHANGED <<circuit, msg>>
               /\ op' = "new_circuit"
    /\ pre' = [history |-> history, redo_stack |-> redo_stack, circuit |-> circuit]
    /\ before_undo' = <<>>
    /\ reported' = <<>>
    /\ undone_from' = NoCircuit
    /\ pushed' = NoPush
    /\ emitted' = FALSE
    /\ UNCHANGED <<history, redo_stack, row, pc, i, caller, last_action, lap>>
    /\ UNCHANGED gate_info

Next ==
    \/ SelectGate
    \/ AddQubit
    \/ AddGate
    \/ RunSimulation
    \/ UndoAction
    \/ RedoAction
    \/ RebuildStep
    \/ RebuildDone
    \/ NewCircuit

Spec == Init /\ [][Next]_vars

\* the variables every step of rebuild_circuit's loop changes
loop == <<pc, i, lap>>

\* the program used with the first gate of the list only
FirstGateNext ==
    \/ SelectFirstGate
    \/ AddQubit
    \/ AddGate
    \/ RunSimulation
    \/ UndoAction
    \/ RedoAction
    \/ RebuildStep
    \/ RebuildDone
    \/ NewCircuit

\* a handler that has started keeps running: the loop of rebuild_circuit makes
\* its next iteration, and returns once the iterator is exhausted
FairSpec ==
    Init /\ [][FirstGateNext]_vars /\ WF_loop(RebuildStep) /\ WF_loop(RebuildDone)

\* ------------------------------------------------- the Gate Information tab
\* the keys of GATE_INFO, which GateInfoTab.initUI adds to its gate list in
\* this order
GATE_INFO ==
    << <<"H">>, <<"X">>, <<"Y">>, <<"Z">>, <<"S">>, <<"T">>,
       <<"R","X">>, <<"R","Y">>, <<"R","Z">>,
       <<"C","X">>, <<"C","Y">>, <<"C","Z">>,
       <<"S","w","a","p">>, <<"C","C","X">> >>

\* self.gate_list.count()
gate_list_count == Len(GATE_INFO)

\* the variables of the circuit builder, which the tab does not touch
builder ==
    <<circuit, history, redo_stack, row, msg, pushed, pc, i, caller, last_action,
      lap, op, pre, before_undo, reported, undone_from, emitted>>

\* show_previous_gate(), the Previous button
ShowPreviousGate ==
    /\ LET current_row == gate_info.row
       IN  gate_info' = [row |-> IF current_row > 0 THEN current_row - 1 ELSE current_row,
                         pre |-> current_row,
                         op |-> "previous"]
    /\ UNCHANGED builder

\* show_next_gate whose test lets the last row through
ShowNextGate_past_end ==
    /\ LET current_row == gate_info.row
       IN  gate_info' = [row |-> IF current_row < gate_list_count
                                 THEN current_row + 1
                                 ELSE current_row,
                         pre |-> current_row,
                         op |-> "next"]
    /\ UNCHANGED builder

\* show_next_gate(), the Next button
ShowNextGate ==
    /\ LET current_row == gate_info.row
       IN  gate_info' = [row |-> IF current_row < gate_list_count - 1
                                 THEN current_row + 1
                                 ELSE current_row,
                         pre |-> current_row,
                         op |-> "next"]
    /\ UNCHANGED builder

\* the user clicks an item of the tab's gate list
ClickGateInfo ==
    /\ \E r \in 0..(gate_list_count - 1) :
          gate_info' = [row |-> r, pre |-> gate_info.row, op |-> "click"]
    /\ UNCHANGED builder

GateInfoNext ==
    \/ ShowPreviousGate
    \/ ShowNextGate
    \/ ClickGateInfo

\* the Gate Information tab used on its own
GateInfoSpec == Init /\ [][GateInfoNext]_vars

\* ------------------------------------------------------------------- claims
\* all but the last element, and the last element, of a non-empty sequence
Front(s) == SubSeq(s, 1, Len(s) - 1)

Last(s) == s[Len(s)]

\* a button handler has returned
Returned(name) == pc = "idle" /\ op = name

\* the number of 'Add Qubit' entries of a history
CountAddQubit(h) == Cardinality({ k \in 1..Len(h) : h[k] = AddQubitStr })

\* the gate names of the 'Add Gate: <name>' entries of a history, in order
GateEntries(h) ==
    LET adds == SelectSeq(h, LAMBDA a : startswith(a, AddGatePrefix))
    IN  [k \in 1..Len(adds) |-> split_1(adds[k])]

\* the gates a circuit holds, in order: one per gate instruction, the
\* save/barrier/measure group of one Measure counted once
GateInstructions(c) ==
    LET kept == SelectSeq(c.data,
                  LAMBDA g : /\ g.name # <<"s","a","v","e">>
                             /\ g.name # <<"b","a","r","r","i","e","r">>
                             /\ (g.name = <<"m","e","a","s","u","r","e">> => g.qubits = <<0>>))
    IN  [k \in 1..Len(kept) |->
            IF kept[k].name = <<"m","e","a","s","u","r","e">> THEN MeasureGate ELSE kept[k].name]

\* C1: for any non-empty applied, undo() followed immediately by redo() leaves
\* applied (self.history) identical to its value before the undo.
C1_UndoRedoRestoresApplied ==
    (Returned("redo") /\ before_undo # <<>>) => history = before_undo

\* C2: for any non-empty applied, when undo() returns, applied is its previous
\* value without the last element, undone is its previous value with that
\* element appended, and that element is the one reported to the user.
C2_UndoMovesLast ==
    (Returned("undo") /\ pre.history # <<>>) =>
        /\ history = Front(pre.history)
        /\ redo_stack = Append(pre.redo_stack, Last(pre.history))
        /\ reported = Last(pre.history)

\* C3: for any non-empty undone, when redo() returns, undone is its previous
\* value without the last element, applied is its previous value with that
\* element appended, and that element is the one reported.
C3_RedoMovesLast ==
    (Returned("redo") /\ pre.redo_stack # <<>>) =>
        /\ redo_stack = Front(pre.redo_stack)
        /\ history = Append(pre.history, Last(pre.redo_stack))
        /\ reported = Last(pre.redo_stack)

\* C4: undo(), redo() and replay always terminate: a replay that has started
\* eventually returns control to the caller.
C4_ReplayTerminates == InReplay ~> ~InReplay

\* the log as it was when the replay of the latest undo or redo started
ReplayStart ==
    IF op = "undo"
    THEN [history |-> Front(pre.history),
          redo_stack |-> Append(pre.redo_stack, Last(pre.history))]
    ELSE [history |-> Append(pre.history, Last(pre.redo_stack)),
          redo_stack |-> Front(pre.redo_stack)]

\* a replay has run to its end
Replayed ==
    \/ Returned("undo") /\ pre.history # <<>>
    \/ Returned("redo") /\ pre.redo_stack # <<>>

\* C5: replay (rebuild_circuit) never modifies the recorded log: applied and
\* undone are the same when replay ends as when it started.
C5_ReplayKeepsLog ==
    Replayed => (history = ReplayStart.history /\ redo_stack = ReplayStart.redo_stack)

\* C6: between user operations the live circuit is the replay of applied: its
\* qubit count is 1 plus the number of AddQubit entries and its gate
\* instructions correspond one-to-one, in order, to the AddGate entries.
C6_CircuitIsReplayOfApplied ==
    pc = "idle" =>
        /\ circuit.nq = 1 + CountAddQubit(history)
        /\ GateInstructions(circuit) = GateEntries(history)

\* C7: clear() leaves applied empty, undone empty and the circuit in its
\* initial state of one qubit, one classical bit and no instructions.
C7_ClearResetsAll ==
    Returned("clear_circuit") =>
        (history = <<>> /\ redo_stack = <<>> /\ circuit = init_circuit)

\* C8: after record(op) (push_history), undone (self.redo_stack) is empty and
\* op is the last element of applied, whatever the two held before.
C8_RecordClearsUndone ==
    pushed # NoPush =>
        (redo_stack = <<>> /\ history # <<>> /\ Last(history) = pushed)

\* a new operation has just been recorded over a non-empty redo stack
C8_Witness ==
    /\ pushed # NoPush
    /\ op \in {"add_qubit", "add_gate", "run_simulation"}
    /\ pre.redo_stack # <<>>
    /\ pre.history # <<>>

\* C9: undo() on an empty applied shows the "No actions to undo." notice and
\* leaves applied, undone and the circuit unchanged.
C9_UndoOnEmpty ==
    (op = "undo" /\ pre.history = <<>>) =>
        /\ pc = "idle"
        /\ msg = Msg("Undo", "No actions to undo.", <<>>)
        /\ history = pre.history
        /\ redo_stack = pre.redo_stack
        /\ circuit = pre.circuit

\* undo was pressed on an empty history while the redo stack held an action
C9_Witness == op = "undo" /\ pre.history = <<>> /\ pre.redo_stack # <<>>

\* C10: redo() on an empty undone shows the "No actions to redo." notice and
\* leaves applied, undone and the circuit unchanged.
C10_RedoOnEmpty ==
    (op = "redo" /\ pre.redo_stack = <<>>) =>
        /\ pc = "idle"
        /\ msg = Msg("Redo", "No actions to redo.", <<>>)
        /\ history = pre.history
        /\ redo_stack = pre.redo_stack
        /\ circuit = pre.circuit

\* redo was pressed on an empty redo stack while the circuit held a gate
C10_Witness ==
    /\ op = "redo"
    /\ pre.redo_stack = <<>>
    /\ pre.history # <<>>
    /\ pre.circuit.data # <<>>

\* C11: undo() rolls back exactly one operation: when it returns, the live
\* circuit equals the circuit as it was immediately before the undone
\* operation was applied (same qubit count, same instructions in the same
\* order with the same targets, controls and angles).
C11_UndoRestoresCircuit ==
    (Returned("undo") /\ undone_from # NoCircuit) =>
        /\ circuit.nq = undone_from.nq
        /\ circuit.data = undone_from.data

\* the for loop of rebuild_circuit from index k on, in the run where the user
\* cancels every dialog it opens
RECURSIVE rebuild_loop(_, _)
rebuild_loop(s, k) ==
    IF k >= Len(s.history)
    THEN s
    ELSE rebuild_loop(rebuild_body(s, s.history[k + 1], None, None, None), k + 1)

\* the circuit rebuild_circuit() leaves for history h in that run
rebuild_cancelled(h) ==
    rebuild_loop([Fresh EXCEPT !.circuit = init_circuit, !.history = h], 0).circuit

\* C12: replay is deterministic: two replays of the same applied sequence from
\* a fresh circuit give identical circuits, whatever is answered to dialogs
\* during the replay; so every replay of a sequence ends with the circuit of
\* the replay of that sequence in which every dialog is cancelled (sequences
\* without 'Add Qubit', on which that replay ends).
C12_ReplayDeterministic ==
    (Replayed /\ CountAddQubit(ReplayStart.history) = 0) =>
        circuit = rebuild_cancelled(ReplayStart.history)

\* C13: adding CCX, for which add_gate collects a single control, fails with
\* "Insufficient Controls" and records nothing: add_gate never records an
\* 'Add Gate: CCX' entry.
C13_CCXNotRecorded ==
    op = "add_gate" => pushed # AddGateStr(CCXGate)

\* C14: a gate whose application raises (CX with the control on the target
\* qubit, the only pair a one-qubit circuit offers) ends add_gate with the
\* "Error" box: the gate is not recorded in applied, and undone and the
\* circuit's instruction list are as they were before the attempt.
C14_FailedGateNotRecorded ==
    (op = "add_gate" /\ msg = Msg("Error", "Failed to add gate:", <<>>)) =>
        /\ pushed = NoPush
        /\ history = pre.history
        /\ redo_stack = pre.redo_stack
        /\ circuit.data = pre.circuit.data

\* a gate failed on a circuit that held instructions, with recorded actions
C14_Witness ==
    /\ op = "add_gate"
    /\ msg = Msg("Error", "Failed to add gate:", <<>>)
    /\ pre.history # <<>>
    /\ pre.circuit.data # <<>>

\* C15: undone (self.redo_stack) is non-empty only after undo calls with no
\* record since: every step that leaves undone non-empty records nothing and
\* belongs to an undo or a redo, or is a call that leaves applied, undone and
\* the circuit as they were; so the operations made since undone was last
\* empty are undo, redo and no-op calls only.
C15_UndoneOnlyAfterUndo ==
    [][redo_stack' # <<>> =>
          /\ pushed' = NoPush
          /\ \/ op' \in {"undo", "redo"}
             \/ UNCHANGED <<circuit, history, redo_stack>>]_vars

\* two undos and a redo have left an undone action
C15_Witness ==
    /\ Returned("redo")
    /\ redo_stack # <<>>
    /\ pre.redo_stack # <<>>

\* an entry of kind AddQubit or AddGate
IsAddEntry(a) == a = AddQubitStr \/ startswith(a, AddGatePrefix)

\* C16: every entry held in applied or undone is of kind AddQubit or AddGate;
\* no other kind, such as a simulation run, is recorded.
C16_OnlyAddEntries ==
    /\ \A k \in 1..Len(history) : IsAddEntry(history[k])
    /\ \A k \in 1..Len(redo_stack) : IsAddEntry(redo_stack[k])

\* C17: the initial session state: applied and undone are empty and the
\* circuit has exactly one qubit, one classical bit and no instructions.
C17_InitialState ==
    op = "init" =>
        /\ history = <<>>
        /\ redo_stack = <<>>
        /\ circuit.nq = 1
        /\ circuit.ncl = 1
        /\ circuit.data = <<>>

\* the widget as constructed, before any button is clicked
C17_Witness == op = "init" /\ pc = "idle" /\ row = None /\ pushed = NoPush

\* C18: replay resets the circuit to the initial one-qubit state and then
\* applies exactly the operations applied held when the replay started, oldest
\* first, each exactly once and no others: its loop handles no entry beyond
\* those, and it ends with one more qubit per AddQubit entry and one gate
\* instruction per AddGate entry of that sequence, in order.
C18_ReplayAppliesStartLog ==
    /\ pc = "rebuild" => i <= Len(ReplayStart.history)
    /\ Replayed =>
          /\ circuit.nq = 1 + CountAddQubit(ReplayStart.history)
          /\ GateInstructions(circuit) = GateEntries(ReplayStart.history)

\* C19: a recorded AddGate carries its name, targets, controls and parameter,
\* and replay re-applies it with exactly those stored values, without
\* prompting again: every instruction the replay of an undo puts at a position
\* the circuit had filled before the undo is the instruction that was there,
\* with the same qubits and the same angle.
C19_ReplayUsesStoredValues ==
    (Returned("undo") /\ pre.history # <<>>) =>
        \A k \in 1..Len(circuit.data) :
            k <= Len(pre.circuit.data) => circuit.data[k] = pre.circuit.data[k]

\* the actions the handlers pass to push_history
RecordedActions ==
    {AddQubitStr, RunSimulationStr} \cup { AddGateStr(gates[r + 1]) : r \in GateChoices }

\* C20: record(op) (push_history) changes only applied and undone: the live
\* circuit, its qubit count and instruction list, is the same after record as
\* before, on every state the widget reaches and for every action recorded;
\* so a successful run_simulation, which changes the widget by push_history
\* alone, returns with the circuit it started from.
C20_RecordKeepsCircuit ==
    /\ \A a \in RecordedActions :
          LET after == push_history(Self, a)
          IN  /\ after.circuit.nq = circuit.nq
              /\ after.circuit.data = circuit.data
              /\ after.circuit = circuit
    /\ (op = "run_simulation" /\ pushed # NoPush) => circuit = pre.circuit

\* a simulation run was recorded on a circuit that held instructions
C20_Witness ==
    /\ op = "run_simulation"
    /\ pushed = RunSimulationStr
    /\ pre.circuit.data # <<>>

\* C21: Add Qubit on a circuit of n qubits yields a circuit of exactly n + 1
\* qubits, the new one having index n, and exactly one more classical bit;
\* the instructions, and with them the qubits they act on, are unchanged.
C21_AddQubitAddsOne ==
    Returned("add_qubit") =>
        /\ circuit.nq = pre.circuit.nq + 1
        /\ circuit.ncl = pre.circuit.ncl + 1
        /\ circuit.data = pre.circuit.data
        /\ msg = Msg("Qubit Added", "Qubit {num_qubits} added to the circuit.",
                     str(circuit.nq - 1))

\* a qubit was added to a circuit that held an instruction
C21_Witness == Returned("add_qubit") /\ pre.circuit.data # <<>>

\* a gate name that is not in the gate list
UnlistedGates == {<<"I">>}

\* the names add_gate dispatches to a gate-application branch
DispatchedGates ==
    SingleQubitGates \cup RotationGates \cup MultiQubitGates \cup {MeasureGate}

\* every name of the gate list is dispatched
ListedGatesDispatched ==
    \A r \in 0..(Len(gates) - 1) : gates[r + 1] \in DispatchedGates

C23_NoReadDuringReplay ==
    pc = "rebuild" => ~emitted

\* a sequence in reverse order
Reverse(q) == [k \in 1..Len(q) |-> q[Len(q) + 1 - k]]

\* C24: undo and redo only move operations between the two sequences: applied
\* followed by undone in reverse order is the same sequence when undo() or
\* redo() returns as it was before the call.
C24_UndoRedoOnlyMove ==
    (Returned("undo") \/ Returned("redo")) =>
        history \o Reverse(redo_stack) = pre.history \o Reverse(pre.redo_stack)

\* C25: add_gate appends an 'Add Gate: <name>' entry to history only if it
\* appended an instruction for the gate to the circuit in the same call; a
\* rotation whose angle dialog is cancelled and a multi-qubit gate that
\* apply_multi_qubit_gate declines to apply are not recorded.
C25_RecordedGateWasApplied ==
    (op = "add_gate" /\ pushed # NoPush) =>
        Len(circuit.data) > Len(pre.circuit.data)

\* history, the redo stack and the circuit of s are those of the widget
SameLogAndCircuit(s) ==
    /\ s.history = history
    /\ s.redo_stack = redo_stack
    /\ s.circuit = circuit

\* C26: an add_gate call that ends early (no gate selected, the target-qubit
\* prompt cancelled, or the control-qubit prompt cancelled) leaves history, the
\* redo stack and the circuit unchanged: so it is for each such call the
\* widget can be given between two handlers, and an Add Gate click that has
\* recorded nothing has returned with all three as it found them.
C26_EarlyEndChangesNothing ==
    /\ pc = "idle" =>
          /\ \A ang \in AnglesAsked(row), ctl \in ControlsAsked(row, circuit.nq) :
                SameLogAndCircuit(add_gate(Fresh, None, ang, ctl))
          /\ \A tgt \in QubitAnswers(circuit.nq), ang \in AnglesAsked(row) :
                (row # None /\ gates[row + 1] \in MultiQubitGates) =>
                    SameLogAndCircuit(add_gate(Fresh, tgt, ang, None))
    /\ (op = "add_gate" /\ pushed = NoPush) =>
          /\ history = pre.history
          /\ redo_stack = pre.redo_stack
          /\ circuit = pre.circuit

\* an Add Gate click on a selected gate ended without "Gate Added" or "Error",
\* on a circuit that held instructions, with recorded actions
C26_Witness ==
    /\ op = "add_gate"
    /\ pc = "idle"
    /\ pushed = NoPush
    /\ msg[1] \notin {"Error", "Gate Added", "No Gate Selected"}
    /\ row # None
    /\ pre.history # <<>>
    /\ pre.circuit.data # <<>>

\* a log of 'Run Simulation' entries only
OnlyRunSimulation(h) == \A k \in 1..Len(h) : h[k] = RunSimulationStr

\* what C27 says of the states of an undo or redo that started from a log of
\* 'Run Simulation' entries only
RunSimulationReplay ==
    /\ (/\ op \in {"undo", "redo"}
        /\ OnlyRunSimulation(pre.history)
        /\ OnlyRunSimulation(pre.redo_stack)
        /\ (op = "undo" => pre.history # <<>>)
        /\ (op = "redo" => pre.redo_stack # <<>>)) =>
          /\ pc \in {"rebuild", "idle"}
          /\ i <= Len(history)
          /\ history = ReplayStart.history
          /\ redo_stack = ReplayStart.redo_stack
          /\ circuit = init_circuit
    /\ (/\ Returned("redo")
        /\ before_undo # <<>>
        /\ OnlyRunSimulation(before_undo)
        /\ OnlyRunSimulation(pre.redo_stack)) => history = before_undo

\* C27: when history and the redo stack hold only 'Run Simulation' entries,
\* undo_action and redo_action terminate, rebuild_circuit leaves the circuit
\* in the initial one-qubit state without changing history or the redo stack,
\* and undo followed by redo restores history exactly.
C27_RunSimulationLog ==
    /\ []RunSimulationReplay
    /\ (InReplay /\ OnlyRunSimulation(history) /\ OnlyRunSimulation(redo_stack))
          ~> ~InReplay

\* an undo and a redo have returned on a log of two 'Run Simulation' entries
C27_Witness ==
    /\ Returned("redo")
    /\ before_undo = <<RunSimulationStr, RunSimulationStr>>
    /\ pre.redo_stack = <<RunSimulationStr>>
    /\ history = before_undo

\* C28: in every reachable state the circuit has at least one qubit, so that
\* the "No Qubits" branch of add_gate is never taken, and every qubit index
\* passed to a gate application is one get_qubits offered: it lies in
\* 0..num_qubits-1 of the circuit to which the gate was just applied.
C28_QubitsInRange ==
    /\ circuit.nq >= 1
    /\ msg[1] # "No Qubits"
    /\ \A k \in 1..Len(circuit.data) :
          \A q \in 1..Len(circuit.data[k].qubits) :
              circuit.data[k].qubits[q] \in 0..(circuit.nq - 1)

\* a two-qubit gate was applied across both qubits of a two-qubit circuit
C28_Witness ==
    /\ circuit.nq = 2
    /\ \E k \in 1..Len(circuit.data) : circuit.data[k].qubits = <<1, 0>>

\* C29: in GateInfoTab, after any sequence of Previous and Next clicks the
\* current row of the gate list stays within -1..count-1: Previous at row 0 or
\* with no row selected, and Next at the last row, leave the row unchanged,
\* and otherwise each click moves the row by exactly one.
C29_GateInfoRowInRange ==
    /\ gate_info.row \in (-1)..(gate_list_count - 1)
    /\ gate_info.op = "previous" =>
          IF gate_info.pre \in {-1, 0}
          THEN gate_info.row = gate_info.pre
          ELSE gate_info.row = gate_info.pre - 1
    /\ gate_info.op = "next" =>
          IF gate_info.pre = gate_list_count - 1
          THEN gate_info.row = gate_info.pre
          ELSE gate_info.row = gate_info.pre + 1

\* Next was clicked on the last row
C29_Witness ==
    /\ gate_info.op = "next"
    /\ gate_info.pre = gate_list_count - 1
    /\ gate_info.row = gate_list_count - 1

====
